---- MODULE Spec2Model ----
(***************************************************************************)
(* Model of the three artefacts of the pywbem excerpt:                     *)
(*   .travis.yml              the Travis CI job (install / script /        *)
(*                            after_success) over the interpreter matrix   *)
(*   packaging/debian/rules   the Debian rules makefile, run by make       *)
(*   docs/notebooks/datamodel.ipynb  the CIMInstance notebook cell         *)
(* The three are independent programs sharing no state; a behaviour of the *)
(* model is a behaviour of one of them, selected by `tool`.                *)
(*                                                                         *)
(* Every command of a list or recipe may succeed or fail.  A command that  *)
(* fails leaves the tracked files as they were.                            *)
(***************************************************************************)
EXTENDS Integers, Sequences, FiniteSets, TLC

VARIABLES
    tool,            \* which control file is being executed
    \* ---- .travis.yml ----
    ciVersion,       \* TRAVIS_PYTHON_VERSION of the current job
    ciPhase,         \* "idle" | "install" | "script" | "after_success" | "done"
    ciIdx,           \* index of the next command of the current phase
    ciFailed,        \* some script command has returned non-zero
    ciTrace,         \* commands executed by the current job: [phase, cmd, ok]
    ciResult,        \* "none" | "errored" | "failed" | "passed"
    ciPrev,          \* history: version and commands of the previous passed job
    \* ---- packaging/debian/rules ----
    mkGoal,          \* goal of the current make invocation, or "none"
    mkPlan,          \* targets still to be considered, in make's order
    mkLine,          \* next recipe line of Head(mkPlan); 0 = not yet considered
    mkStatus,        \* "idle" | "running" | "ok" | "error"
    mkTrace,         \* recipe lines executed by this invocation: [target, cmd, ok]
    mkStampAtStart,  \* did build-stamp exist when the invocation started
    mkPrev,          \* history: goal, stamp-at-start, commands of the previous successful invocation
    stampExists,     \* the file build-stamp exists
    buildDone,       \* build/ holds a completed `python setup.py build`
    staged,          \* debian/python-pywbem holds a completed install
    recipeDone,      \* history: the build-stamp recipe ran to its end since the last removal
    \* ---- docs/notebooks/datamodel.ipynb ----
    props,           \* CIMInstance.properties
    log,             \* history: the assignments made, in order
    lastRead         \* result of the last inst[name] lookup

ciVars == <<ciVersion, ciPhase, ciIdx, ciFailed, ciTrace, ciResult, ciPrev>>
mkVars == <<mkGoal, mkPlan, mkLine, mkStatus, mkTrace, mkStampAtStart, mkPrev,
            stampExists, buildDone, staged, recipeDone>>
nbVars == <<props, log, lastRead>>
vars == <<tool, ciVars, mkVars, nbVars>>

Range(s) == {s[i] : i \in DOMAIN s}
Cmds(trace) == [i \in DOMAIN trace |-> trace[i].cmd]
None == "none"
NoJob  == [version |-> None, cmds |-> <<>>]
NoRun  == [goal |-> None, stamp |-> FALSE, cmds |-> <<>>]
NoRead == [name |-> <<>>, result |-> None]

Tools == {"travis", "make", "python"}

(***************************************************************************)
(* .travis.yml                                                             *)
(***************************************************************************)
PythonVersions == {"2.6", "2.7", "3.4", "3.5", "3.6"}

InstallCmds ==
    << "python -c platform.linux_distribution",
       "python -c site-packages",
       "pip list",
       "pip install --upgrade pip",
       "python uninstall_pbr_on_py26.py",
       "make clobber",
       "pip list",
       "make develop",
       "pip install python-coveralls",
       "pip list" >>

ScriptCmdsSwapped == <<"make build", "make check", "make test", "make builddoc">>
ScriptCmds == <<"make check", "make build", "make builddoc", "make test">>

\* if [[ $TRAVIS_PYTHON_VERSION == 2.7 ]]; then coveralls; fi
RunsCoverallsAnyVersion(v) == TRUE
RunsCoveralls(v) == v = "2.7"

CIInit ==
    /\ ciVersion = None
    /\ ciPhase = "idle"
    /\ ciIdx = 0
    /\ ciFailed = FALSE
    /\ ciTrace = <<>>
    /\ ciResult = None
    /\ ciPrev = NoJob

\* One job of the build matrix is started on a fresh worker.
StartJob(v) ==
    /\ tool = "travis"
    /\ ciPhase \in {"idle", "done"}
    /\ ciPrev' = IF ciResult = "passed"
                 THEN [version |-> ciVersion, cmds |-> Cmds(ciTrace)]
                 ELSE ciPrev
    /\ ciVersion' = v
    /\ ciPhase' = "install"
    /\ ciIdx' = 1
    /\ ciFailed' = FALSE
    /\ ciTrace' = <<>>
    /\ ciResult' = None
    /\ UNCHANGED <<tool, mkVars, nbVars>>

\* install: a non-zero exit code errors the job and stops it at once.
RunInstall(ok) ==
    /\ tool = "travis"
    /\ ciPhase = "install"
    /\ ciTrace' = Append(ciTrace, [phase |-> "install", cmd |-> InstallCmds[ciIdx], ok |-> ok])
    /\ IF ~ok
       THEN /\ ciPhase' = "done"
            /\ ciResult' = "errored"
            /\ UNCHANGED ciIdx
       ELSE IF ciIdx < Len(InstallCmds)
       THEN /\ ciIdx' = ciIdx + 1
            /\ UNCHANGED <<ciPhase, ciResult>>
       ELSE /\ ciPhase' = "script"
            /\ ciIdx' = 1
            /\ UNCHANGED ciResult
    /\ UNCHANGED <<tool, ciVersion, ciFailed, ciPrev, mkVars, nbVars>>

\* script: every command is run; a non-zero exit code marks the job failed,
\* and a failed job skips after_success.
RunScript(ok) ==
    /\ tool = "travis"
    /\ ciPhase = "script"
    /\ ciTrace' = Append(ciTrace, [phase |-> "script", cmd |-> ScriptCmds[ciIdx], ok |-> ok])
    /\ ciFailed' = (ciFailed \/ ~ok)
    /\ IF ciIdx < Len(ScriptCmds)
       THEN /\ ciIdx' = ciIdx + 1
            /\ UNCHANGED <<ciPhase, ciResult>>
       ELSE IF ciFailed'
       THEN /\ ciPhase' = "done"
            /\ ciResult' = "failed"
            /\ UNCHANGED ciIdx
       ELSE /\ ciPhase' = "after_success"
            /\ ciIdx' = 1
            /\ UNCHANGED ciResult
    /\ UNCHANGED <<tool, ciVersion, ciPrev, mkVars, nbVars>>

\* after_success: the single conditional line; its exit code does not change
\* the result of the job.
RunAfterSuccess(ok) ==
    /\ tool = "travis"
    /\ ciPhase = "after_success"
    /\ ciTrace' = IF RunsCoveralls(ciVersion)
                  THEN Append(ciTrace, [phase |-> "after_success", cmd |-> "coveralls", ok |-> ok])
                  ELSE ciTrace
    /\ ciPhase' = "done"
    /\ ciResult' = "passed"
    /\ UNCHANGED <<tool, ciVersion, ciIdx, ciFailed, ciPrev, mkVars, nbVars>>

NextCI ==
    \/ \E v \in PythonVersions : StartJob(v)
    \/ \E ok \in BOOLEAN : RunInstall(ok)
    \/ \E ok \in BOOLEAN : RunScript(ok)
    \/ \E ok \in BOOLEAN : RunAfterSuccess(ok)

(***************************************************************************)
(* packaging/debian/rules                                                  *)
(***************************************************************************)
Targets == {"build", "build-stamp", "clean", "install",
            "binary-indep", "binary-arch", "binary"}

\* .PHONY: build clean binary-indep binary-arch binary install
Phony == {"build", "clean", "binary-indep", "binary-arch", "binary", "install"}

BuildCmd   == "python setup.py build"
TouchCmd   == "touch build-stamp"
RmCmd      == "rm -rf build-stamp build"
FindCmd    == "-find . -name '*.py[co]' | xargs rm -f"
InstallCmd == "python setup.py install --root=$(CURDIR)/debian/python-pywbem"

\* Prerequisites of a target, in the order the rule lists them.
PrereqsNoInstall(t) ==
    CASE t = "build"        -> <<"build-stamp">>
      [] t = "install"      -> <<"build">>
      [] t = "binary-indep" -> <<"build">>
      [] t = "binary-arch"  -> <<"build">>
      [] t = "binary"       -> <<"binary-indep", "binary-arch">>
      [] OTHER              -> <<>>
Prereqs(t) ==
    CASE t = "build"        -> <<"build-stamp">>
      [] t = "install"      -> <<"build">>
      [] t = "binary-indep" -> <<"build", "install">>
      [] t = "binary-arch"  -> <<"build", "install">>
      [] t = "binary"       -> <<"binary-indep", "binary-arch">>
      [] OTHER              -> <<>>

\* Recipe lines of a target.
Recipe(t) ==
    CASE t = "build-stamp" ->
           << "dh_testdir", BuildCmd, TouchCmd, TouchCmd >>
      [] t = "clean" ->
           << "dh_testdir", "dh_testroot", RmCmd, FindCmd, "dh_clean" >>
      [] t = "install" ->
           << "dh_testdir", "dh_testroot", "dh_clean -k", "dh_installdirs", InstallCmd >>
      [] t = "binary-indep" ->
           << "dh_testdir", "dh_testroot", "dh_installdocs -i README",
              "dh_installchangelogs -i", "dh_compress -i", "dh_fixperms -i",
              "dh_pycentral -i", "dh_installdeb -i", "dh_gencontrol -i",
              "dh_md5sums -i", "dh_builddeb -i" >>
      [] t = "binary-arch" ->
           << "dh_testdir", "dh_testroot", "dh_installdocs -a -A README",
              "dh_installchangelogs -a", "dh_strip -a", "dh_compress -a",
              "dh_fixperms -a", "dh_pycentral -a", "dh_installdeb -a",
              "dh_shlibdeps -a", "dh_gencontrol -a", "dh_md5sums -a",
              "dh_builddeb -a" >>
      [] OTHER -> <<>>

\* A recipe line prefixed with '-' has its exit status ignored by make.
IgnoresErrorAlways(cmd) == TRUE
IgnoresError(cmd) == cmd = FindCmd

\* The order in which make considers the targets of a goal: prerequisites
\* first, left to right, each target once per invocation.
RECURSIVE VisitEveryTime(_, _)
VisitEveryTime(ts, done) ==
    IF ts = <<>> THEN done
    ELSE VisitEveryTime(Tail(ts),
                        Append(VisitEveryTime(Prereqs(Head(ts)), done), Head(ts)))
RECURSIVE Visit(_, _)
Visit(ts, done) ==
    IF ts = <<>> THEN done
    ELSE IF Head(ts) \in Range(done) THEN Visit(Tail(ts), done)
    ELSE Visit(Tail(ts), Append(Visit(Prereqs(Head(ts)), done), Head(ts)))

UpdateOrderRepeating(goal) == VisitEveryTime(<<goal>>, <<>>)
UpdateOrder(goal) == Visit(<<goal>>, <<>>)

\* build-stamp is the only target that names a file.
FileExistsBuildDir(t) == t = "build-stamp" /\ buildDone
FileExists(t) == t = "build-stamp" /\ stampExists

\* A phony target is always remade; a file target without prerequisites is
\* remade only when the file does not exist.
MustRemakeAlways(t) == TRUE
MustRemake(t) == t \in Phony \/ ~FileExists(t)

MakeInit ==
    /\ mkGoal = None
    /\ mkPlan = <<>>
    /\ mkLine = 0
    /\ mkStatus = "idle"
    /\ mkTrace = <<>>
    /\ mkStampAtStart = FALSE
    /\ mkPrev = NoRun
    /\ stampExists = FALSE
    /\ buildDone = FALSE
    /\ staged = FALSE
    /\ recipeDone = FALSE

\* debian/rules <goal>
Invoke(g) ==
    /\ tool = "make"
    /\ mkStatus # "running"
    /\ mkPrev' = IF mkStatus = "ok"
                 THEN [goal |-> mkGoal, stamp |-> mkStampAtStart, cmds |-> Cmds(mkTrace)]
                 ELSE mkPrev
    /\ mkGoal' = g
    /\ mkPlan' = UpdateOrder(g)
    /\ mkLine' = 0
    /\ mkStatus' = "running"
    /\ mkTrace' = <<>>
    /\ mkStampAtStart' = stampExists
    /\ UNCHANGED <<tool, stampExists, buildDone, staged, recipeDone, ciVars, nbVars>>

\* The rest of the plan after the target at its head is finished.
Advance(plan) ==
    /\ mkPlan' = Tail(plan)
    /\ mkLine' = 0
    /\ mkStatus' = IF Tail(plan) = <<>> THEN "ok" ELSE "running"

\* make considers the next target: up to date, nothing to run, or start its recipe.
Consider ==
    /\ tool = "make"
    /\ mkStatus = "running"
    /\ mkLine = 0
    /\ LET t == Head(mkPlan) IN
       IF MustRemake(t) /\ Recipe(t) # <<>>
       THEN /\ mkLine' = 1
            /\ UNCHANGED <<mkPlan, mkStatus>>
       ELSE Advance(mkPlan)
    /\ UNCHANGED <<tool, mkGoal, mkTrace, mkStampAtStart, mkPrev,
                   stampExists, buildDone, staged, recipeDone, ciVars, nbVars>>

\* Effect of a successful command on the tracked files.
Effect(t, cmd, line) ==
    /\ stampExists' = IF cmd = TouchCmd THEN TRUE
                      ELSE IF cmd = RmCmd THEN FALSE ELSE stampExists
    /\ buildDone' = IF cmd = BuildCmd THEN TRUE
                    ELSE IF cmd = RmCmd THEN FALSE ELSE buildDone
    /\ staged' = IF cmd = InstallCmd THEN TRUE
                 ELSE IF cmd \in {"dh_clean", "dh_clean -k"} THEN FALSE ELSE staged
    /\ recipeDone' = IF t = "build-stamp" /\ line = Len(Recipe(t)) THEN TRUE
                     ELSE IF cmd = RmCmd THEN FALSE ELSE recipeDone

\* make runs the next line of the current recipe.
RunLine(ok) ==
    /\ tool = "make"
    /\ mkStatus = "running"
    /\ mkLine >= 1
    /\ LET t   == Head(mkPlan)
           cmd == Recipe(t)[mkLine]
       IN /\ mkTrace' = Append(mkTrace, [target |-> t, cmd |-> cmd, ok |-> ok])
          /\ IF ok THEN Effect(t, cmd, mkLine)
                   ELSE UNCHANGED <<stampExists, buildDone, staged, recipeDone>>
          /\ IF ~ok /\ ~IgnoresError(cmd)
             THEN /\ mkStatus' = "error"
                  /\ mkPlan' = <<>>
                  /\ mkLine' = 0
             ELSE IF mkLine < Len(Recipe(t))
             THEN /\ mkLine' = mkLine + 1
                  /\ UNCHANGED <<mkPlan, mkStatus>>
             ELSE Advance(mkPlan)
    /\ UNCHANGED <<tool, mkGoal, mkStampAtStart, mkPrev, ciVars, nbVars>>

NextMake ==
    \/ \E g \in Targets : Invoke(g)
    \/ Consider
    \/ \E ok \in BOOLEAN : RunLine(ok)

(***************************************************************************)
(* docs/notebooks/datamodel.ipynb: a CIMInstance accessed as a dictionary  *)
(***************************************************************************)
MaxNameLen == 1      \* longest property name, in characters
MaxAssign  == 2      \* assignments made to one instance

\* A property name is a sequence of characters; 'f'/'F' and 'l'/'L' stand
\* for the letters of 'Firstname' and 'Lastname'.
Chars  == {"f", "F", "l", "L"}
Names  == UNION {[1..n -> Chars] : n \in 1..MaxNameLen}
Values == {"Tim", "Potter"}

LowerChar(c) == CASE c = "F" -> "f" [] c = "L" -> "l" [] OTHER -> c
UpperChar(c) == CASE c = "f" -> "F" [] c = "l" -> "L" [] OTHER -> c

\* The key under which a property name is stored and looked up.
NormKeyExact(name) == name
NormKey(name) == [i \in DOMAIN name |-> LowerChar(name[i])]

\* inst = pywbem.CIMInstance('CIM_Person')
NewInstance ==
    /\ tool = "python"
    /\ log # <<>>
    /\ props' = <<>>
    /\ log' = <<>>
    /\ lastRead' = NoRead
    /\ UNCHANGED <<tool, ciVars, mkVars>>

\* inst[name] = value
SetItem(name, value) ==
    /\ tool = "python"
    /\ Len(log) < MaxAssign
    /\ props' = [k \in DOMAIN props \cup {NormKey(name)} |->
                    IF k = NormKey(name) THEN [name |-> name, value |-> value]
                                         ELSE props[k]]
    /\ log' = Append(log, [name |-> name, value |-> value])
    /\ lastRead' = NoRead
    /\ UNCHANGED <<tool, ciVars, mkVars>>

\* print(inst[name])
GetItem(name) ==
    /\ tool = "python"
    /\ lastRead' = [name   |-> name,
                    result |-> IF NormKey(name) \in DOMAIN props
                               THEN props[NormKey(name)].value
                               ELSE "KeyError"]
    /\ UNCHANGED <<tool, props, log, ciVars, mkVars>>

NextNotebook ==
    \/ NewInstance
    \/ \E name \in Names, value \in Values : SetItem(name, value)
    \/ \E name \in Names : GetItem(name)

Init ==
    /\ tool \in Tools
    /\ CIInit
    /\ MakeInit
    /\ props = <<>>
    /\ log = <<>>
    /\ lastRead = NoRead

Next == NextCI \/ NextMake \/ NextNotebook

Spec == Init /\ [][Next]_vars

(***************************************************************************)
(* Properties                                                              *)
(***************************************************************************)
CIHas(c) == \E i \in DOMAIN ciTrace : ciTrace[i].cmd = c
MkHas(c) == \E i \in DOMAIN mkTrace : mkTrace[i].cmd = c

\* C1 (as stated): in every CI command list and every Debian recipe, once a
\* command has failed no later command of the same list is executed.
C1_FailureAbortsSequence ==
    /\ \A i, j \in DOMAIN ciTrace :
         ~ciTrace[i].ok /\ i < j => ciTrace[j].phase # ciTrace[i].phase
    /\ \A i, j \in DOMAIN mkTrace :
         ~mkTrace[i].ok /\ i < j => mkTrace[j].target # mkTrace[i].target

\* C1 (amended): a failing install command ends the CI job at once; a failing
\* recipe line ends the make invocation at once unless it is the '-' prefixed
\* find line of clean; a failing script command lets the later script
\* commands run but the job is failed and after_success is never run.
C1_FailureAbortsUnlessIgnored ==
    /\ \A i \in DOMAIN ciTrace :
         ~ciTrace[i].ok /\ ciTrace[i].phase = "install"
            => i = Len(ciTrace) /\ ciResult = "errored"
    /\ \A i, j \in DOMAIN ciTrace :
         ~ciTrace[i].ok /\ ciTrace[i].phase = "script" /\ i < j
            => ciTrace[j].phase = "script" /\ ciResult # "passed"
    /\ \A i \in DOMAIN mkTrace :
         ~mkTrace[i].ok /\ mkTrace[i].cmd # FindCmd
            => i = Len(mkTrace) /\ mkStatus = "error"

C1_Witness ==
    /\ mkGoal = "clean"
    /\ mkStatus = "error"
    /\ Len(mkTrace) = 5
    /\ ~mkTrace[4].ok
    /\ ~mkTrace[5].ok

\* C2: in a CI job, make check starts only after every install command has
\* finished, make build only after make check, make test only after make
\* build, and coveralls only after make test.
CIBefore(a, b) ==
    \A j \in DOMAIN ciTrace :
        ciTrace[j].cmd = b => \E i \in 1..(j - 1) : ciTrace[i].cmd = a
C2_PhaseOrder ==
    /\ \A j \in DOMAIN ciTrace :
         ciTrace[j].phase # "install"
            => /\ j > Len(InstallCmds)
               /\ \A k \in 1..Len(InstallCmds) :
                    ciTrace[k] = [phase |-> "install", cmd |-> InstallCmds[k], ok |-> TRUE]
    /\ CIBefore("make check", "make build")
    /\ CIBefore("make build", "make test")
    /\ CIBefore("make test", "coveralls")

C2_Witness ==
    /\ ciResult = "passed"
    /\ CIHas("coveralls")
    /\ CIHas("make check")

\* C3: in an invocation of binary, binary-indep or binary-arch, the install
\* into the staging root runs only on a completed build, and every assembly
\* step runs only after that install has completed, on a staged root.
BinaryGoals == {"binary", "binary-indep", "binary-arch"}
AssemblyTargets == {"binary-indep", "binary-arch"}
C3_BuildInstallAssemble ==
    mkGoal \in BinaryGoals =>
        \A i \in DOMAIN mkTrace :
            /\ mkTrace[i].cmd = InstallCmd
                 => /\ buildDone
                    /\ \/ mkStampAtStart
                       \/ \E k \in 1..(i - 1) :
                            mkTrace[k].cmd = BuildCmd /\ mkTrace[k].ok
            /\ mkTrace[i].target \in AssemblyTargets
                 => /\ staged
                    /\ \E k \in 1..(i - 1) :
                         mkTrace[k].cmd = InstallCmd /\ mkTrace[k].ok

C3_Witness ==
    /\ mkGoal = "binary-indep"
    /\ mkStatus = "ok"
    /\ ~mkStampAtStart
    /\ MkHas("dh_builddeb -i")

\* C4: coveralls is executed only in the job of interpreter version 2.7,
\* only in after_success, and never in a job one of whose script commands
\* failed.
C4_CoverageOnlyOn27 ==
    \A i \in DOMAIN ciTrace :
        ciTrace[i].cmd = "coveralls"
           => /\ ciVersion = "2.7"
              /\ ciTrace[i].phase = "after_success"
              /\ ~ciFailed
              /\ \A j \in DOMAIN ciTrace : ciTrace[j].phase = "script" => ciTrace[j].ok

C4_Witness ==
    /\ ciResult = "passed"
    /\ ciVersion = "3.6"
    /\ ~CIHas("coveralls")
    /\ ciPrev.version = "2.7"
    /\ \E i \in DOMAIN ciPrev.cmds : ciPrev.cmds[i] = "coveralls"

\* C5 (as stated): two passed CI jobs, of whatever interpreter versions,
\* execute the same commands, and two successful invocations of the same
\* make target execute the same commands whatever the working tree held.
C5_SameCommandsEveryRun ==
    /\ ciResult = "passed" /\ ciPrev # NoJob
          => Cmds(ciTrace) = ciPrev.cmds
    /\ mkStatus = "ok" /\ mkPrev.goal = mkGoal
          => Cmds(mkTrace) = mkPrev.cmds

\* C5 (amended): the commands of a passed CI job are the install list and
\* the script list, followed by coveralls exactly when the version is 2.7;
\* two successful invocations of the same make target that start with the
\* same presence of build-stamp execute the same commands.
C5_SameCommandsUpToBranches ==
    /\ ciResult = "passed"
          => /\ SubSeq(Cmds(ciTrace), 1, Len(InstallCmds) + Len(ScriptCmds))
                   = InstallCmds \o ScriptCmds
             /\ CIHas("coveralls") <=> ciVersion = "2.7"
             /\ Len(ciTrace) = Len(InstallCmds) + Len(ScriptCmds)
                                + (IF ciVersion = "2.7" THEN 1 ELSE 0)
    /\ ciResult = "passed" /\ ciPrev.version = ciVersion
          => Cmds(ciTrace) = ciPrev.cmds
    /\ mkStatus = "ok" /\ mkPrev.goal = mkGoal /\ mkPrev.stamp = mkStampAtStart
          => Cmds(mkTrace) = mkPrev.cmds

C5_Witness ==
    /\ mkStatus = "ok"
    /\ mkGoal = "install"
    /\ mkPrev.goal = "install"
    /\ mkPrev.stamp = mkStampAtStart
    /\ MkHas(InstallCmd)

\* C6: a lookup inst[n] returns the value last assigned under any name that
\* differs from n only in lexical case (KeyError when there is none), and no
\* two properties of an instance have names that differ only in case.
SameIgnoringCase(a, b) ==
    /\ Len(a) = Len(b)
    /\ \A i \in DOMAIN a : a[i] \in {LowerChar(b[i]), UpperChar(b[i])}
LastAssigned(n) ==
    LET hits == {i \in DOMAIN log : SameIgnoringCase(log[i].name, n)}
    IN  IF hits = {} THEN "KeyError"
        ELSE log[CHOOSE i \in hits : \A k \in hits : k <= i].value
C6_CaseInsensitiveLookup ==
    /\ lastRead # NoRead => lastRead.result = LastAssigned(lastRead.name)
    /\ \A k1, k2 \in DOMAIN props :
         SameIgnoringCase(props[k1].name, props[k2].name) => k1 = k2

C6_Witness ==
    /\ lastRead # NoRead
    /\ log # <<>>
    /\ log[Len(log)].name # lastRead.name
    /\ SameIgnoringCase(log[Len(log)].name, lastRead.name)
    /\ lastRead.result = log[Len(log)].value

\* C8 (as stated): python setup.py build is never run by an invocation that
\* starts with build-stamp present, and between invocations build-stamp
\* exists exactly when a python setup.py build has completed since the last
\* clean removed it.
C8_StampIffBuilt ==
    /\ MkHas(BuildCmd) => ~mkStampAtStart
    /\ mkStatus # "running" => (stampExists <=> buildDone)

\* C8 (amended): python setup.py build is never run by an invocation that
\* starts with build-stamp present; build-stamp exists only if a python
\* setup.py build has completed since the last clean removed it, and it
\* exists whenever the whole build-stamp recipe has completed since then.
C8_StampOnlyIfBuilt ==
    /\ MkHas(BuildCmd) => ~mkStampAtStart
    /\ stampExists => buildDone
    /\ recipeDone => stampExists

C8_Witness ==
    /\ mkGoal = "binary"
    /\ mkStatus = "ok"
    /\ mkStampAtStart
    /\ recipeDone
    /\ ~MkHas(BuildCmd)

\* C9: one invocation of binary runs the build-stamp recipe and the install
\* recipe at most once each, both before any line of binary-indep or
\* binary-arch, and runs binary-arch only after binary-indep has completed.
LinesOf(t) == {i \in DOMAIN mkTrace : mkTrace[i].target = t}
C9_BinaryRunsEachRecipeOnce ==
    mkGoal = "binary" =>
        /\ Cardinality(LinesOf("build-stamp")) <= Len(Recipe("build-stamp"))
        /\ Cardinality(LinesOf("install")) <= Len(Recipe("install"))
        /\ \A i, j \in DOMAIN mkTrace :
             /\ mkTrace[i].cmd = mkTrace[j].cmd
                  /\ mkTrace[i].cmd \in {BuildCmd, "dh_clean -k", InstallCmd}
                  => i = j
             /\ mkTrace[i].target \in {"build-stamp", "install"}
                  /\ mkTrace[j].target \in AssemblyTargets
                  => i < j
             /\ mkTrace[i].target = "binary-indep" /\ mkTrace[j].target = "binary-arch"
                  => i < j
        /\ LinesOf("binary-arch") # {}
             => \E i \in LinesOf("binary-indep") :
                    mkTrace[i].cmd = "dh_builddeb -i" /\ mkTrace[i].ok

C9_Witness ==
    /\ mkGoal = "binary"
    /\ mkStatus = "ok"
    /\ MkHas("dh_builddeb -i")
    /\ MkHas("dh_builddeb -a")
    /\ MkHas(InstallCmd)

====
